---- MODULE Spec2Model ----
(***************************************************************************)
(* Model of openai/src/context.rs: the process-wide Context singleton      *)
(* (CTX), the evidence store (HAR) with its file watches, and the preauth  *)
(* cookie cache.                                                           *)
(*                                                                         *)
(* The specifications share the variables and the actions:                 *)
(*   Spec         threads calling init / get_instance, construction and    *)
(*                the file watches that construction starts;               *)
(*   SpecBoot     one Context::new over every file-system state and every  *)
(*                choice of configured evidence paths;                     *)
(*   SpecWatch    a published Context: watch events and the callback       *)
(*                (SpecWatchFair adds the callback's weak fairness);       *)
(*   SpecLock     a published Context: watch events, callbacks and the     *)
(*                readers of the evidence store, on its lock               *)
(*                (SpecLockFair adds the fairness of threads and lock);    *)
(*   SpecRace     one Context::new with the watches it starts delivering   *)
(*                events;                                                  *)
(*   SpecTurnstile one Context::new over every choice of Turnstile keys;   *)
(*   SpecPreauth  a published Context: the preauth cookie cache.           *)
(***************************************************************************)
EXTENDS Integers, Sequences, FiniteSets, TLC

(* ------------------------------ bounds --------------------------------- *)

\* threads that call init / get_instance
NumThreads == 2

\* calls each thread makes, one after the other
MaxCalls == 2

\* file events the environment produces
MaxEvents == 2

\* keys pushed into the preauth cache
MaxKeys == 2

\* half days the clock of the preauth cache runs
MaxTime == 3

\* entries the preauth cache admits: max_capacity(1000), scaled to MaxKeys
CacheCapacity == 1

\* types the readers ask arkose_har_path for, counted back from the end of
\* TypeOrder
MaxReadTypes == 1

(* ------------------------- program constants --------------------------- *)

\* time_to_live(Duration::from_secs(3600 * 24)), in half days
TimeToLive == 2

(* ---------------------------- value domains ---------------------------- *)

\* Option::None of a string-valued option
None == "None"

\* Option::None of a structured value, and an empty OnceLock
Nil == <<>>

\* arkose::Type, in the order Context::new bootstraps the four records
TypeOrder == <<"Chat3", "Chat4", "Auth0", "Platform">>

Types == {TypeOrder[i] : i \in DOMAIN TypeOrder}

\* the default file name of each type; home_dir().join(name) is modelled by
\* the name itself, the home directory being the same for all four
DefaultFilename ==
    [Chat3 |-> ".chat3.openai.com.har", Chat4 |-> ".chat4.openai.com.har",
     Auth0 |-> ".auth.openai.com.har", Platform |-> ".platform.openai.com.har"]

DefaultPaths == {DefaultFilename[t] : t \in Types}

\* paths a configuration may name: one that is valid Unicode, one that is not
Utf8Path == "a.har"

RawPath == "b_xFF.har"

\* what Path::display() makes of RawPath: the invalid bytes become U+FFFD
LossyPath == "b_uFFFD.har"

ExplicitPaths == {Utf8Path, RawPath}

AllPaths == DefaultPaths \cup ExplicitPaths \cup {LossyPath}

\* Path::to_str(): None unless the path is valid Unicode
to_str(path) == IF path = RawPath THEN None ELSE path

\* Path::display().to_string(): lossy, never fails
display(path) == IF path = RawPath THEN LossyPath ELSE path

\* a file is absent, or a regular file that is empty or not
FileStates == {"absent", "empty", "nonempty"}

Threads == 1..NumThreads

(* --------------------------- configurations ---------------------------- *)

\* ContextArgs::builder().build(): every optional field at its default
DefaultArgs ==
    [har |-> [t \in Types |-> None], pbind |-> None,
     cf_site_key |-> None, cf_secret_key |-> None,
     api_prefix |-> None, auth_key |-> None, arkose_endpoint |-> None,
     arkose_har_upload_key |-> None, arkose_solver |-> None]

ArgsA ==
    [har |-> [t \in Types |-> IF t = "Chat3" THEN Utf8Path ELSE None],
     pbind |-> "0.0.0.0:8888",
     cf_site_key |-> "siteA", cf_secret_key |-> "secretA",
     api_prefix |-> "/a", auth_key |-> "keyA", arkose_endpoint |-> "endA",
     arkose_har_upload_key |-> "upA", arkose_solver |-> "solverA"]

ArgsB ==
    [har |-> [t \in Types |-> None], pbind |-> None,
     cf_site_key |-> "siteB", cf_secret_key |-> None,
     api_prefix |-> "/b", auth_key |-> "keyB", arkose_endpoint |-> None,
     arkose_har_upload_key |-> None, arkose_solver |-> None]

\* the configurations threads pass to init
ArgsSet == {ArgsA, ArgsB}

(* ------------------------------- state --------------------------------- *)

VARIABLES
    fs,          \* the file system: path -> FileStates
    CTX,         \* static CTX: OnceLock<Context>; Nil or the Context
    HAR,         \* static HAR: OnceLock<RwLock<HashMap<Type, Har>>>; Nil or the map
    ctxRunner,   \* the call running CTX's get_or_init closure, or Nil
    pc,          \* thread -> "idle" | "har" | "harset" | "publish" | "panicked"
    op,          \* thread -> "init" | "get" | None: the call in progress
    args,        \* thread -> the ContextArgs of the Context::new in progress
    hars,        \* thread -> the Har records built so far (type -> Har)
    ncalls,      \* thread -> calls begun
    ret,         \* thread -> id of the Context its last get_instance returned
    late,        \* thread -> its call began with a Context already published
    watches,     \* the registered hotwatch subscriptions
    created,     \* type -> times "Create default HAR empty file" happened
    watchStarts, \* type -> times a watch was registered
    harSets,     \* times HAR.set succeeded
    initCalls,   \* calls of init begun
    errLogged,   \* times init logged "Failed to initialize context"
    evq,         \* watch -> the events its dispatcher has not taken yet
    cb,          \* watch -> its running callback: the paths left, the phase
    harLock,     \* the RwLock of HAR: its writer (a watch) and its readers
    clearCalls,  \* path string -> calls of arkose::har::clear with it
    warned,      \* times "Failed to convert path to string" was logged
    sent,        \* path -> times a modify event carried it to a callback
    nEvents,     \* file events the environment produced
    rd,          \* thread -> the type its arkose_har_path call is reading
    seen,        \* thread -> what its last arkose_har_path returned
    cacheMap,    \* preauth_cache: key -> [value, at], the entries it stores
    admitted,    \* the keys the cache's policy counts (weighted_size)
    now,         \* the clock of the cache, in half days
    lastOp       \* the last operation on the cache and what it returned

callVars == <<pc, op, args, hars, ncalls, ret, late>>

histVars == <<created, watchStarts, harSets, initCalls, errLogged>>

eventVars == <<evq, cb, harLock, clearCalls, warned, sent, nEvents>>

readVars == <<rd, seen>>

cacheVars == <<cacheMap, admitted, now, lastOp>>

vars == <<fs, CTX, HAR, ctxRunner, watches, callVars, histVars, eventVars,
          readVars, cacheVars>>

(* ----------------------------- OnceLock -------------------------------- *)

\* the mutant: a cell that takes every value it is given
OnceLockSet_overwrite(cell, value) == [ok |-> TRUE, cell |-> value]

\* OnceLock::set: stores the value only in an empty cell, Err(value) otherwise
OnceLockSet(cell, value) ==
    IF cell = Nil THEN [ok |-> TRUE, cell |-> value]
    ELSE [ok |-> FALSE, cell |-> cell]

(* ------------------------- evidence bootstrap -------------------------- *)

\* the subscription a Har owns: its type, the path watched, the call owning it
Watch(_type, path, owner) == [type |-> _type, path |-> path, owner |-> owner]

\* watch_har_file: watches the path's display string; hotwatch canonicalizes
\* it, which fails on a file that does not exist ("failed to watch file!")
watch_har_file(_type, path, owner, files) ==
    IF files[display(path)] = "absent"
    THEN [ok |-> FALSE, hotwatch |-> Nil]
    ELSE [ok |-> TRUE, hotwatch |-> Watch(_type, display(path), owner)]

\* the mutant: an existing default file is fresh whatever it holds
default_state_exists(content) == content # "absent"

\* freshness of a default file: read it if it is a file, else it is created
default_state(content) == content = "nonempty"

\* the mutant: a configured path is inspected like a default one
explicit_state_inspect(content) == content = "nonempty"

\* freshness of a configured path: trusted without looking at the file
explicit_state(content) == TRUE

\* init_har: the record of one type, the file system it leaves, whether the
\* default file was created, and whether the call panicked
init_har(_type, path, default_filename, owner, files) ==
    IF path # None
    THEN LET w == watch_har_file(_type, path, owner, files)
         IN  [panic |-> ~w.ok, files |-> files, created |-> FALSE,
              har |-> [path |-> path, state |-> explicit_state(files[path]),
                       hotwatch |-> w.hotwatch]]
    ELSE LET default_path == default_filename
             isfile == files[default_path] # "absent"
             files2 == IF isfile THEN files
                       ELSE [files EXCEPT ![default_path] = "empty"]
             w == watch_har_file(_type, default_path, owner, files2)
         IN  [panic |-> ~w.ok, files |-> files2, created |-> ~isfile,
              har |-> [path |-> default_path,
                       state |-> default_state(files[default_path]),
                       hotwatch |-> w.hotwatch]]

\* the mutant: a map of the capacity asked for, the fourth record left out
har_map_three(h) == [t \in Types \ {TypeOrder[Len(TypeOrder)]} |-> h[t]]

\* har_map: HashMap::with_capacity(3), then one insert per type
har_map(h) == [t \in Types |-> h[t]]

\* Drop for Har: the records a panicking call built are unwatched
DropHars(owner) == {w \in watches : w.owner # owner}

\* the mutant: the site key alone makes a Turnstile configuration
CfTurnstile_site_only(a) ==
    IF a.cf_site_key # None
    THEN [site_key |-> a.cf_site_key, secret_key |-> a.cf_secret_key]
    ELSE Nil

\* cf_turnstile: present only when both keys were given
CfTurnstile(a) ==
    IF a.cf_site_key # None /\ a.cf_secret_key # None
    THEN [site_key |-> a.cf_site_key, secret_key |-> a.cf_secret_key]
    ELSE Nil

\* the mutant: the preauth cache is built whatever the configuration says
NewContext_cached(a, id) ==
    [id |-> id,
     arkose_endpoint |-> a.arkose_endpoint,
     arkose_solver |-> a.arkose_solver,
     arkose_har_upload_key |-> a.arkose_har_upload_key,
     cf_turnstile |-> CfTurnstile(a),
     api_prefix |-> a.api_prefix,
     auth_key |-> a.auth_key,
     preauth_cache |-> TRUE]

\* the Context value Context::new returns, once HAR is set
NewContext(a, id) ==
    [id |-> id,
     arkose_endpoint |-> a.arkose_endpoint,
     arkose_solver |-> a.arkose_solver,
     arkose_har_upload_key |-> a.arkose_har_upload_key,
     cf_turnstile |-> CfTurnstile(a),
     api_prefix |-> a.api_prefix,
     auth_key |-> a.auth_key,
     preauth_cache |-> a.pbind # None]

\* Context::cf_turnstile(): the field, as_ref
cf_turnstile(ctx) == ctx.cf_turnstile

(* -------------------------- threads: calls ----------------------------- *)

CallId(th) == <<th, ncalls[th]>>

\* the next type Context::new bootstraps
NextType(th) == TypeOrder[Cardinality(DOMAIN hars[th]) + 1]

\* a panic unwinds the call: its Har records are dropped, and a get_or_init
\* closure that panics leaves CTX uninitialized for the next caller
Panic(th) ==
    /\ pc' = [pc EXCEPT ![th] = "panicked"]
    /\ watches' = DropHars(CallId(th))
    /\ evq' = [w \in DOMAIN evq \cap DropHars(CallId(th)) |-> evq[w]]
    /\ hars' = [hars EXCEPT ![th] = <<>>]
    /\ ctxRunner' = IF ctxRunner = CallId(th) THEN Nil ELSE ctxRunner

\* init(args): Context::new(args) is evaluated first, then CTX.set
StartInit(th) ==
    /\ pc[th] = "idle"
    /\ ncalls[th] < MaxCalls
    /\ \E a \in ArgsSet : args' = [args EXCEPT ![th] = a]
    /\ op' = [op EXCEPT ![th] = "init"]
    /\ pc' = [pc EXCEPT ![th] = "har"]
    /\ hars' = [hars EXCEPT ![th] = <<>>]
    /\ ncalls' = [ncalls EXCEPT ![th] = @ + 1]
    /\ initCalls' = initCalls + 1
    /\ late' = [late EXCEPT ![th] = CTX # Nil]
    /\ UNCHANGED <<fs, CTX, HAR, ctxRunner, ret, watches, created,
                   watchStarts, harSets, errLogged>>
    /\ UNCHANGED <<eventVars, readVars, cacheVars>>

\* the mutant: a check of the cell that is not atomic with the construction
GetEnter_unguarded(th) ==
    /\ CTX = Nil
    /\ ctxRunner' = <<th, ncalls[th] + 1>>

\* get_or_init on an empty cell: one caller at a time runs the closure,
\* the others wait for it
GetEnter(th) ==
    /\ CTX = Nil
    /\ ctxRunner = Nil
    /\ ctxRunner' = <<th, ncalls[th] + 1>>

\* get_instance() on an empty CTX: this thread runs the closure
StartGet(th) ==
    /\ pc[th] = "idle"
    /\ ncalls[th] < MaxCalls
    /\ GetEnter(th)
    /\ args' = [args EXCEPT ![th] = DefaultArgs]
    /\ op' = [op EXCEPT ![th] = "get"]
    /\ pc' = [pc EXCEPT ![th] = "har"]
    /\ hars' = [hars EXCEPT ![th] = <<>>]
    /\ ncalls' = [ncalls EXCEPT ![th] = @ + 1]
    /\ late' = [late EXCEPT ![th] = FALSE]
    /\ UNCHANGED <<fs, CTX, HAR, ret, watches, created, watchStarts,
                   harSets, initCalls, errLogged>>
    /\ UNCHANGED <<eventVars, readVars, cacheVars>>

\* get_instance() on a published CTX: returns it
GetPublished(th) ==
    /\ pc[th] = "idle"
    /\ ncalls[th] < MaxCalls
    /\ CTX # Nil
    /\ ret' = [ret EXCEPT ![th] = CTX.id]
    /\ ncalls' = [ncalls EXCEPT ![th] = @ + 1]
    /\ UNCHANGED <<fs, CTX, HAR, ctxRunner, pc, op, args, hars, late, watches,
                   created, watchStarts, harSets, initCalls, errLogged>>
    /\ UNCHANGED <<eventVars, readVars, cacheVars>>

\* one init_har call of Context::new
InitHarStep(th) ==
    /\ pc[th] = "har"
    /\ LET t == NextType(th)
           r == init_har(t, args[th].har[t], DefaultFilename[t], CallId(th), fs)
       IN  /\ fs' = r.files
           /\ created' = [created EXCEPT ![t] = @ + (IF r.created THEN 1 ELSE 0)]
           /\ IF r.panic
              THEN /\ Panic(th)
                   /\ UNCHANGED watchStarts
              ELSE /\ hars' = [hars EXCEPT ![th] = (t :> r.har) @@ @]
                   /\ watches' = watches \cup {r.har.hotwatch}
                   /\ watchStarts' = [watchStarts EXCEPT ![t] = @ + 1]
                   /\ pc' = [pc EXCEPT ![th] =
                                IF t = TypeOrder[Len(TypeOrder)]
                                THEN "harset" ELSE "har"]
                   /\ UNCHANGED <<ctxRunner, evq>>
    /\ UNCHANGED <<CTX, HAR, op, args, ncalls, ret, late, harSets, initCalls,
                   errLogged>>
    /\ UNCHANGED <<cb, harLock, clearCalls, warned, sent, nEvents, readVars,
                   cacheVars>>

\* HAR.set(RwLock::new(har_map)).expect("Failed to set har map")
HarSetStep(th) ==
    /\ pc[th] = "harset"
    /\ LET r == OnceLockSet(HAR, har_map(hars[th]))
       IN  /\ HAR' = r.cell
           /\ IF r.ok
              THEN /\ pc' = [pc EXCEPT ![th] = "publish"]
                   /\ harSets' = harSets + 1
                   /\ UNCHANGED <<watches, hars, ctxRunner, evq>>
              ELSE /\ Panic(th)
                   /\ UNCHANGED harSets
    /\ UNCHANGED <<fs, CTX, op, args, ncalls, ret, late, created, watchStarts,
                   initCalls, errLogged>>
    /\ UNCHANGED <<cb, harLock, clearCalls, warned, sent, nEvents, readVars,
                   cacheVars>>

\* the end of get_or_init's closure: the Context is stored and returned
GetPublish(th) ==
    /\ pc[th] = "publish"
    /\ op[th] = "get"
    /\ CTX' = NewContext(args[th], CallId(th))
    /\ ret' = [ret EXCEPT ![th] = CallId(th)]
    /\ ctxRunner' = Nil
    /\ pc' = [pc EXCEPT ![th] = "idle"]
    /\ op' = [op EXCEPT ![th] = None]
    /\ UNCHANGED <<fs, HAR, args, hars, ncalls, late, watches, created,
                   watchStarts, harSets, initCalls, errLogged>>
    /\ UNCHANGED <<eventVars, readVars, cacheVars>>

\* init's CTX.set(...): waits for a running get_or_init closure; an Err is
\* logged and the Context it carries is dropped
InitPublish(th) ==
    /\ pc[th] = "publish"
    /\ op[th] = "init"
    /\ ctxRunner = Nil
    /\ LET r == OnceLockSet(CTX, NewContext(args[th], CallId(th)))
       IN  /\ CTX' = r.cell
           /\ errLogged' = errLogged + (IF r.ok THEN 0 ELSE 1)
    /\ pc' = [pc EXCEPT ![th] = "idle"]
    /\ op' = [op EXCEPT ![th] = None]
    /\ UNCHANGED <<fs, HAR, ctxRunner, args, hars, ncalls, ret, late, watches,
                   created, watchStarts, harSets, initCalls>>
    /\ UNCHANGED <<eventVars, readVars, cacheVars>>

(* ------------------------ file watch dispatcher ------------------------ *)

\* the events waiting at a watch's dispatcher
Queue(w) == IF w \in DOMAIN evq THEN evq[w] ELSE <<>>

\* a function without one of its arguments
Without(f, x) == [y \in DOMAIN f \ {x} |-> f[y]]

\* every subscription a call can own
WatchIds ==
    {Watch(t, p, <<th, n>>) :
        t \in Types, p \in {display(q) : q \in AllPaths},
        th \in Threads, n \in 1..MaxCalls}

\* the watches on a file
WatchesOf(p) == {w \in watches : w.path = p}

\* the paths a modify event of file p may carry: the file's path, a spelling
\* of it that is not valid Unicode, or both (a rename)
EventPaths(p) == {<<p>>, <<RawPath>>, <<p, RawPath>>}

\* how often path q occurs in a list of paths
Occurrences(q, paths) == Cardinality({i \in DOMAIN paths : paths[i] = q})

\* the sum of f over a set
RECURSIVE Sum(_, _)
Sum(f, S) ==
    IF S = {} THEN 0
    ELSE LET x == CHOOSE y \in S : TRUE IN f[x] + Sum(f, S \ {x})

\* how often path q is still to be handled: in the modify events waiting
\* at the dispatchers and in the paths the running callbacks have left
PendingOcc(q) ==
    Sum([w \in DOMAIN evq |->
            Sum([i \in DOMAIN evq[w] |->
                    IF evq[w][i].kind = "Modify"
                    THEN Occurrences(q, evq[w][i].paths) ELSE 0],
                DOMAIN evq[w])], DOMAIN evq)
    + Sum([w \in DOMAIN cb |-> Occurrences(q, cb[w].paths)], DOMAIN cb)

\* every watch of file p is sent the event
Deliver(p, ev) ==
    evq' = [w \in DOMAIN evq \cup WatchesOf(p) |->
               IF w \in WatchesOf(p) THEN Append(Queue(w), ev) ELSE evq[w]]

\* the environment writes data to a watched file: a modify event for its
\* watches
ModifyFile(p) ==
    /\ nEvents < MaxEvents
    /\ WatchesOf(p) # {}
    /\ fs[p] # "absent"
    /\ fs' = [fs EXCEPT ![p] = "nonempty"]
    /\ \E paths \in EventPaths(p) :
          /\ Deliver(p, [kind |-> "Modify", paths |-> paths])
          /\ sent' = [q \in AllPaths |->
                         sent[q] + Cardinality(WatchesOf(p)) * Occurrences(q, paths)]
    /\ nEvents' = nEvents + 1
    /\ UNCHANGED <<CTX, HAR, ctxRunner, watches, callVars, histVars, cb,
                   harLock, clearCalls, warned, readVars>>
    /\ UNCHANGED cacheVars

\* the environment reads a watched file: an event that is no modification
AccessFile(p) ==
    /\ nEvents < MaxEvents
    /\ WatchesOf(p) # {}
    /\ fs[p] # "absent"
    /\ Deliver(p, [kind |-> "Access", paths |-> <<p>>])
    /\ nEvents' = nEvents + 1
    /\ UNCHANGED <<fs, CTX, HAR, ctxRunner, watches, callVars, histVars, cb,
                   harLock, clearCalls, warned, sent, readVars>>
    /\ UNCHANGED cacheVars

\* the mutant: every kind of event is taken for a modification
is_modify_any(kind) == TRUE

\* if let EventKind::Modify(_) = event.kind
is_modify(kind) == kind = "Modify"

\* the dispatcher hands the next event to the callback, which looks at its
\* kind: only EventKind::Modify goes on to the paths
CbStart(w) ==
    /\ w \in watches
    /\ Queue(w) # <<>>
    /\ w \notin DOMAIN cb
    /\ LET ev == Head(evq[w])
       IN  cb' = IF is_modify(ev.kind)
                 THEN (w :> [paths |-> ev.paths, phase |-> "lock"]) @@ cb
                 ELSE cb
    /\ evq' = IF Tail(evq[w]) = <<>> THEN Without(evq, w)
              ELSE [evq EXCEPT ![w] = Tail(@)]
    /\ UNCHANGED <<fs, CTX, HAR, ctxRunner, watches, callVars, histVars,
                   harLock, clearCalls, warned, sent, nEvents, readVars>>
    /\ UNCHANGED cacheVars

\* HAR.get().expect(..) panics on an unpublished map, which ends the
\* dispatcher; lock.write() waits until no reader and no writer holds the lock
CbLock(w) ==
    /\ w \in DOMAIN cb
    /\ cb[w].phase = "lock"
    /\ IF HAR = Nil
       THEN /\ cb' = [cb EXCEPT ![w].phase = "dead"]
            /\ UNCHANGED harLock
       ELSE /\ harLock.writer = Nil
            /\ harLock.readers = {}
            /\ harLock' = [harLock EXCEPT !.writer = w]
            /\ cb' = [cb EXCEPT ![w].phase = "flip"]
    /\ UNCHANGED <<fs, CTX, HAR, ctxRunner, watches, callVars, histVars, evq,
                   clearCalls, warned, sent, nEvents, readVars>>
    /\ UNCHANGED cacheVars

\* the mutant: the callback leaves the flag as it is
flip_keep(state) == state

\* the mutant: the callback inverts the flag
flip_toggle(state) == ~state

\* har.state = true
flip(state) == TRUE

\* under the write lock: the record of the watch's type is marked fresh
CbFlip(w) ==
    /\ w \in DOMAIN cb
    /\ cb[w].phase = "flip"
    /\ HAR' = [HAR EXCEPT ![w.type].state = flip(@)]
    /\ cb' = [cb EXCEPT ![w].phase = "clear"]
    /\ UNCHANGED <<fs, CTX, ctxRunner, watches, callVars, histVars, evq,
                   harLock, clearCalls, warned, sent, nEvents, readVars>>
    /\ UNCHANGED cacheVars

\* the mutant: the path is passed on as display() gives it, never refused
clear_arg_lossy(path) == display(path)

\* the argument of arkose::har::clear: path.to_str(), None when not Unicode
clear_arg(path) == to_str(path)

\* the mutant: the write guard outlives the closure body
drop_write_guard_leaked(lock) == lock

\* the write guard har_map goes out of scope at the end of the closure body
drop_write_guard(lock) == [lock EXCEPT !.writer = Nil]

\* still under the lock: clear(path_str), or the warning; then the guard is
\* dropped and for_each goes on to the next path of the event
CbClear(w) ==
    /\ w \in DOMAIN cb
    /\ cb[w].phase = "clear"
    /\ LET path_str == clear_arg(Head(cb[w].paths))
       IN  IF path_str # None
           THEN /\ clearCalls' = [clearCalls EXCEPT ![path_str] = @ + 1]
                /\ UNCHANGED warned
           ELSE /\ warned' = warned + 1
                /\ UNCHANGED clearCalls
    /\ harLock' = drop_write_guard(harLock)
    /\ cb' = IF Tail(cb[w].paths) = <<>> THEN Without(cb, w)
             ELSE [cb EXCEPT ![w] = [paths |-> Tail(@.paths), phase |-> "lock"]]
    /\ UNCHANGED <<fs, CTX, HAR, ctxRunner, watches, callVars, histVars, evq,
                   sent, nEvents, readVars>>
    /\ UNCHANGED cacheVars

(* ------------------------------ readers -------------------------------- *)

\* arkose_har_path: the (state, path) of the type's record, copied
arkose_har_path(_type) == <<HAR[_type].state, HAR[_type].path>>

\* a caller that holds the Context calls arkose_har_path(_type), having
\* dropped what its last call returned; HAR.get().expect(..) finds the map,
\* which was published before the Context
ReadStart(th, _type) ==
    /\ pc[th] = "idle"
    /\ ret[th] # Nil
    /\ rd[th] = None
    /\ HAR # Nil
    /\ rd' = [rd EXCEPT ![th] = _type]
    /\ seen' = [seen EXCEPT ![th] = Nil]
    /\ UNCHANGED <<fs, CTX, HAR, ctxRunner, watches, callVars, histVars,
                   eventVars>>
    /\ UNCHANGED cacheVars

\* the mutant: a read guard that is handed out while a writer holds the lock
ReadLock_unguarded(th) ==
    /\ rd[th] # None
    /\ th \notin harLock.readers
    /\ harLock' = [harLock EXCEPT !.readers = @ \cup {th}]
    /\ UNCHANGED <<fs, CTX, HAR, ctxRunner, watches, callVars, histVars, evq,
                   cb, clearCalls, warned, sent, nEvents, readVars>>
    /\ UNCHANGED cacheVars

\* .read(): waits while a writer holds the lock, shares it with other readers
ReadLock(th) ==
    /\ rd[th] # None
    /\ th \notin harLock.readers
    /\ harLock.writer = Nil
    /\ harLock' = [harLock EXCEPT !.readers = @ \cup {th}]
    /\ UNCHANGED <<fs, CTX, HAR, ctxRunner, watches, callVars, histVars, evq,
                   cb, clearCalls, warned, sent, nEvents, readVars>>
    /\ UNCHANGED cacheVars

\* the (state, path) of the record is copied, the read guard dropped and the
\* copy returned
ReadCopy(th) ==
    /\ th \in harLock.readers
    /\ seen' = [seen EXCEPT ![th] = [type |-> rd[th],
                                     state |-> arkose_har_path(rd[th])[1],
                                     path |-> arkose_har_path(rd[th])[2]]]
    /\ harLock' = [harLock EXCEPT !.readers = @ \ {th}]
    /\ rd' = [rd EXCEPT ![th] = None]
    /\ UNCHANGED <<fs, CTX, HAR, ctxRunner, watches, callVars, histVars, evq,
                   cb, clearCalls, warned, sent, nEvents>>
    /\ UNCHANGED cacheVars

(* --------------------------- preauth cache ----------------------------- *)

Keys == 1..MaxKeys

Values == {"cookie1", "cookie2"}

\* an operation on the cache: its name, its arguments, what it returned
Op(name, key, value, r) == [op |-> name, key |-> key, value |-> value, ret |-> r]

NoOp == Op("none", 0, None, None)

\* an entry is expired once time_to_live has passed since it was written
Expired(map, k) == map[k].at + TimeToLive <= now

\* the keys whose entries a read returns
LiveKeys(map) == {k \in DOMAIN map : ~Expired(map, k)}

\* the mutant: an insert that replaces what the key holds
get_with_overwrite(map, key, value) ==
    (key :> [value |-> value, at |-> now]) @@ map

\* Cache::get_with: the live entry if there is one, else the value of the
\* init closure is stored under the key
get_with(map, key, value) ==
    IF key \in LiveKeys(map) THEN map
    ELSE (key :> [value |-> value, at |-> now]) @@ map

\* push_preauth_cookie: nothing without a cache
PushPreauthCookie(key, value) ==
    /\ CTX # Nil
    /\ cacheMap' = IF CTX.preauth_cache THEN get_with(cacheMap, key, value)
                   ELSE cacheMap
    /\ lastOp' = Op("push", key, value, None)
    /\ UNCHANGED <<fs, CTX, HAR, ctxRunner, watches, callVars, histVars,
                   eventVars, readVars, admitted, now>>

\* the mutant: the iterator visits every stored entry, expired or not
iter_all(map) == {map[k].value : k \in DOMAIN map}

\* Cache::iter(): the values of the entries that are not expired
iter(map) == {map[k].value : k \in LiveKeys(map)}

\* what pop_preauth_cookie may return: one of the iterator's values, chosen
\* at random, or None
PopChoices ==
    IF CTX.preauth_cache /\ iter(cacheMap) # {} THEN iter(cacheMap) ELSE {None}

\* pop_preauth_cookie
PopPreauthCookie ==
    /\ CTX # Nil
    /\ \E v \in PopChoices : lastOp' = Op("pop", 0, None, v)
    /\ UNCHANGED <<fs, CTX, HAR, ctxRunner, watches, callVars, histVars,
                   eventVars, readVars, cacheMap, admitted, now>>

\* Cache::weighted_size(): the total weight of the entries the policy has
\* counted so far (every entry weighs 1); writes and expirations reach the
\* count only when the housekeeping has processed them
weighted_size == Cardinality(admitted)

\* enable_preauth: false without a cache, else weighted_size() > 0
EnablePreauth ==
    /\ CTX # Nil
    /\ lastOp' = Op("has_any", 0, None,
                    IF CTX.preauth_cache THEN weighted_size > 0 ELSE FALSE)
    /\ UNCHANGED <<fs, CTX, HAR, ctxRunner, watches, callVars, histVars,
                   eventVars, readVars, cacheMap, admitted, now>>

\* half a day passes
Tick ==
    /\ now < MaxTime
    /\ now' = now + 1
    /\ lastOp' = Op("tick", 0, None, None)
    /\ UNCHANGED <<fs, CTX, HAR, ctxRunner, watches, callVars, histVars,
                   eventVars, readVars, cacheMap, admitted>>

\* the cache's housekeeping removes an expired entry
EvictExpired(k) ==
    /\ k \in DOMAIN cacheMap
    /\ Expired(cacheMap, k)
    /\ cacheMap' = Without(cacheMap, k)
    /\ admitted' = admitted \ {k}
    /\ lastOp' = Op("evict", k, None, None)
    /\ UNCHANGED <<fs, CTX, HAR, ctxRunner, watches, callVars, histVars,
                   eventVars, readVars, now>>

\* the housekeeping admits a written entry while there is room
Admit(k) ==
    /\ k \in DOMAIN cacheMap \ admitted
    /\ Cardinality(admitted) < CacheCapacity
    /\ admitted' = admitted \cup {k}
    /\ lastOp' = Op("admit", k, None, None)
    /\ UNCHANGED <<fs, CTX, HAR, ctxRunner, watches, callVars, histVars,
                   eventVars, readVars, cacheMap, now>>

\* at capacity the admission policy makes room for it by evicting an entry
AdmitEvicting(k, victim) ==
    /\ k \in DOMAIN cacheMap \ admitted
    /\ Cardinality(admitted) >= CacheCapacity
    /\ victim \in admitted
    /\ cacheMap' = Without(cacheMap, victim)
    /\ admitted' = (admitted \ {victim}) \cup {k}
    /\ lastOp' = Op("evict", victim, None, None)
    /\ UNCHANGED <<fs, CTX, HAR, ctxRunner, watches, callVars, histVars,
                   eventVars, readVars, now>>

\* or the policy rejects the written entry, which is removed
Reject(k) ==
    /\ k \in DOMAIN cacheMap \ admitted
    /\ Cardinality(admitted) >= CacheCapacity
    /\ cacheMap' = Without(cacheMap, k)
    /\ lastOp' = Op("evict", k, None, None)
    /\ UNCHANGED <<fs, CTX, HAR, ctxRunner, watches, callVars, histVars,
                   eventVars, readVars, admitted, now>>

(* --------------------------- specification ----------------------------- *)

\* the default evidence files all absent (a first start), all empty or all
\* written; the configured file a.har exists, the others do not
InitFiles ==
    {f \in [AllPaths -> FileStates] :
        /\ f[Utf8Path] = "empty"
        /\ f[RawPath] = "absent"
        /\ f[LossyPath] = "absent"
        /\ \A t \in Types : f[DefaultFilename[t]] = f[DefaultFilename["Chat3"]]}

InitThreads ==
    /\ CTX = Nil
    /\ HAR = Nil
    /\ ctxRunner = Nil
    /\ pc = [th \in Threads |-> "idle"]
    /\ op = [th \in Threads |-> None]
    /\ args = [th \in Threads |-> DefaultArgs]
    /\ hars = [th \in Threads |-> <<>>]
    /\ ncalls = [th \in Threads |-> 0]
    /\ ret = [th \in Threads |-> Nil]
    /\ late = [th \in Threads |-> FALSE]
    /\ watches = {}
    /\ created = [t \in Types |-> 0]
    /\ watchStarts = [t \in Types |-> 0]
    /\ harSets = 0
    /\ initCalls = 0
    /\ errLogged = 0

InitEvents ==
    /\ evq = <<>>
    /\ cb = <<>>
    /\ harLock = [writer |-> Nil, readers |-> {}]
    /\ clearCalls = [p \in AllPaths |-> 0]
    /\ warned = 0
    /\ sent = [p \in AllPaths |-> 0]
    /\ nEvents = 0
    /\ rd = [th \in Threads |-> None]
    /\ seen = [th \in Threads |-> Nil]
    /\ cacheMap = <<>>
    /\ admitted = {}
    /\ now = 0
    /\ lastOp = NoOp

Init ==
    /\ fs \in InitFiles
    /\ InitThreads
    /\ InitEvents

Next ==
    \E th \in Threads :
        \/ StartInit(th)
        \/ StartGet(th)
        \/ GetPublished(th)
        \/ InitHarStep(th)
        \/ HarSetStep(th)
        \/ GetPublish(th)
        \/ InitPublish(th)

Spec == Init /\ [][Next]_vars

(* ----------------------- one Context::new: SpecBoot -------------------- *)

\* every choice of the four evidence paths: default, valid Unicode or not
BootArgs ==
    {[DefaultArgs EXCEPT !.har = h] : h \in [Types -> {None} \cup ExplicitPaths]}

\* every state of the default files and of the configured ones
BootFiles ==
    {f \in [AllPaths -> FileStates] :
        /\ f[RawPath] # "empty"
        /\ f[LossyPath] # "empty"}

\* thread 1 has called init(a) and stands before the first init_har
InitBoot ==
    /\ fs \in BootFiles
    /\ \E a \in BootArgs : args = [th \in Threads |-> a]
    /\ CTX = Nil
    /\ HAR = Nil
    /\ ctxRunner = Nil
    /\ pc = [th \in Threads |-> IF th = 1 THEN "har" ELSE "idle"]
    /\ op = [th \in Threads |-> IF th = 1 THEN "init" ELSE None]
    /\ hars = [th \in Threads |-> <<>>]
    /\ ncalls = [th \in Threads |-> IF th = 1 THEN 1 ELSE 0]
    /\ ret = [th \in Threads |-> Nil]
    /\ late = [th \in Threads |-> FALSE]
    /\ watches = {}
    /\ created = [t \in Types |-> 0]
    /\ watchStarts = [t \in Types |-> 0]
    /\ harSets = 0
    /\ initCalls = 1
    /\ errLogged = 0
    /\ InitEvents

NextBoot ==
    \E th \in Threads :
        \/ InitHarStep(th)
        \/ HarSetStep(th)
        \/ InitPublish(th)

SpecBoot == InitBoot /\ [][NextBoot]_vars

(* ------------- the Turnstile configuration: SpecTurnstile -------------- *)

\* every combination of the two Turnstile keys: absent, or one of two values
TurnstileArgs ==
    {[DefaultArgs EXCEPT !.cf_site_key = site, !.cf_secret_key = secret] :
        site \in {None, "siteA", "siteB"},
        secret \in {None, "secretA", "secretB"}}

\* thread 1 has called init(a) and stands before the first init_har
InitTurnstile ==
    /\ fs \in InitFiles
    /\ \E a \in TurnstileArgs : args = [th \in Threads |-> a]
    /\ CTX = Nil
    /\ HAR = Nil
    /\ ctxRunner = Nil
    /\ pc = [th \in Threads |-> IF th = 1 THEN "har" ELSE "idle"]
    /\ op = [th \in Threads |-> IF th = 1 THEN "init" ELSE None]
    /\ hars = [th \in Threads |-> <<>>]
    /\ ncalls = [th \in Threads |-> IF th = 1 THEN 1 ELSE 0]
    /\ ret = [th \in Threads |-> Nil]
    /\ late = [th \in Threads |-> FALSE]
    /\ watches = {}
    /\ created = [t \in Types |-> 0]
    /\ watchStarts = [t \in Types |-> 0]
    /\ harSets = 0
    /\ initCalls = 1
    /\ errLogged = 0
    /\ InitEvents

SpecTurnstile == InitTurnstile /\ [][NextBoot]_vars

(* -------------------- a published Context: SpecWatch ------------------- *)

\* Context::new run alone from the first init_har on: the four records and
\* the file system it leaves, or a panic
RECURSIVE BootRun(_, _, _, _)
BootRun(a, owner, files, done) ==
    IF Cardinality(DOMAIN done) = Len(TypeOrder)
    THEN [ok |-> TRUE, files |-> files, hars |-> done]
    ELSE LET t == TypeOrder[Cardinality(DOMAIN done) + 1]
             r == init_har(t, a.har[t], DefaultFilename[t], owner, files)
         IN  IF r.panic THEN [ok |-> FALSE, files |-> r.files, hars |-> <<>>]
             ELSE BootRun(a, owner, r.files, (t :> r.har) @@ done)

\* the state a first init(a) by thread 1 leaves, every thread holding the
\* published Context
Published(a, files) ==
    LET id == <<1, 1>>
        b == BootRun(a, id, files, <<>>)
    IN  /\ b.ok
        /\ fs = b.files
        /\ HAR = har_map(b.hars)
        /\ watches = {b.hars[t].hotwatch : t \in Types}
        /\ CTX = NewContext(a, id)
        /\ ctxRunner = Nil
        /\ pc = [th \in Threads |-> "idle"]
        /\ op = [th \in Threads |-> None]
        /\ args = [th \in Threads |-> a]
        /\ hars = [th \in Threads |-> <<>>]
        /\ ncalls = [th \in Threads |-> 1]
        /\ ret = [th \in Threads |-> id]
        /\ late = [th \in Threads |-> FALSE]
        /\ created = [t \in Types |-> IF b.files[b.hars[t].path] # files[b.hars[t].path]
                                      THEN 1 ELSE 0]
        /\ watchStarts = [t \in Types |-> 1]
        /\ harSets = 1
        /\ initCalls = 1
        /\ errLogged = 0

InitWatch ==
    /\ \E a \in {ArgsA} : \E files \in {f \in InitFiles : f[DefaultFilename["Chat3"]] # "empty"} :
          Published(a, files)
    /\ InitEvents

NextWatch ==
    \/ \E p \in AllPaths : ModifyFile(p)
    \/ \E p \in AllPaths : AccessFile(p)
    \/ \E w \in WatchIds : CbStart(w)
    \/ \E w \in WatchIds : CbLock(w)
    \/ \E w \in WatchIds : CbFlip(w)
    \/ \E w \in WatchIds : CbClear(w)

SpecWatch == InitWatch /\ [][NextWatch]_vars

\* each Hotwatch has a dispatcher thread of its own, which the scheduler
\* runs: a callback step that stays possible is taken
SpecWatchFair ==
    /\ SpecWatch
    /\ WF_vars(\E w \in WatchIds : CbStart(w))
    /\ WF_vars(\E w \in WatchIds : CbLock(w))
    /\ WF_vars(\E w \in WatchIds : CbFlip(w))
    /\ WF_vars(\E w \in WatchIds : CbClear(w))

(* ------------- a published Context with readers: SpecLock ------------- *)

\* the types read: Platform, whose default file InitLock has just created
ReadTypes == {TypeOrder[Len(TypeOrder) + 1 - i] : i \in 1..MaxReadTypes}

\* a first start with ArgsA: the three default files were created empty
InitLock ==
    /\ \E files \in {f \in InitFiles : f[DefaultFilename["Chat3"]] = "absent"} :
          Published(ArgsA, files)
    /\ InitEvents

NextLock ==
    \/ \E p \in AllPaths : ModifyFile(p)
    \/ \E w \in WatchIds : CbStart(w)
    \/ \E w \in WatchIds : CbLock(w)
    \/ \E w \in WatchIds : CbFlip(w)
    \/ \E w \in WatchIds : CbClear(w)
    \/ \E th \in Threads : \E t \in ReadTypes : ReadStart(th, t)
    \/ \E th \in Threads : ReadLock(th)
    \/ \E th \in Threads : ReadCopy(th)

SpecLock == InitLock /\ [][NextLock]_vars

\* the four watches of the Context that InitLock publishes
LockWatches ==
    {Watch(t, display(IF ArgsA.har[t] # None THEN ArgsA.har[t]
                      ELSE DefaultFilename[t]), <<1, 1>>) : t \in Types}

\* the dispatcher threads and the callers are scheduled (weak fairness of
\* their steps), and a thread that finds the lock available again and again
\* gets it in the end (strong fairness of the two acquisitions)
SpecLockFair ==
    /\ SpecLock
    /\ WF_vars(\E w \in WatchIds : CbStart(w))
    /\ WF_vars(\E w \in WatchIds : CbFlip(w))
    /\ WF_vars(\E w \in WatchIds : CbClear(w))
    /\ \A w \in LockWatches : SF_vars(CbLock(w))
    /\ \A th \in Threads : SF_vars(ReadLock(th))
    /\ \A th \in Threads : WF_vars(ReadCopy(th))

(* ------------- construction with the watches live: SpecRace ------------ *)

\* thread 1 has called init(a) and stands before the first init_har; the
\* watches it starts deliver events from the moment they are registered
InitRace ==
    /\ fs \in InitFiles
    /\ \E a \in ArgsSet : args = [th \in Threads |-> a]
    /\ CTX = Nil
    /\ HAR = Nil
    /\ ctxRunner = Nil
    /\ pc = [th \in Threads |-> IF th = 1 THEN "har" ELSE "idle"]
    /\ op = [th \in Threads |-> IF th = 1 THEN "init" ELSE None]
    /\ hars = [th \in Threads |-> <<>>]
    /\ ncalls = [th \in Threads |-> IF th = 1 THEN 1 ELSE 0]
    /\ ret = [th \in Threads |-> Nil]
    /\ late = [th \in Threads |-> FALSE]
    /\ watches = {}
    /\ created = [t \in Types |-> 0]
    /\ watchStarts = [t \in Types |-> 0]
    /\ harSets = 0
    /\ initCalls = 1
    /\ errLogged = 0
    /\ InitEvents

NextRace ==
    \/ \E th \in Threads : InitHarStep(th)
    \/ \E th \in Threads : HarSetStep(th)
    \/ \E th \in Threads : InitPublish(th)
    \/ \E p \in AllPaths : ModifyFile(p)
    \/ \E w \in WatchIds : CbStart(w)
    \/ \E w \in WatchIds : CbLock(w)
    \/ \E w \in WatchIds : CbFlip(w)
    \/ \E w \in WatchIds : CbClear(w)

SpecRace == InitRace /\ [][NextRace]_vars

(* ------------------ a published Context: SpecPreauth ------------------- *)

\* a Context with the preauth cache (ArgsA) or without it (ArgsB)
InitPreauth ==
    /\ \E a \in ArgsSet : \E files \in {f \in InitFiles : f[DefaultFilename["Chat3"]] = "absent"} :
          Published(a, files)
    /\ InitEvents

NextPreauth ==
    \/ \E k \in Keys : \E v \in Values : PushPreauthCookie(k, v)
    \/ PopPreauthCookie
    \/ EnablePreauth
    \/ Tick
    \/ \E k \in Keys : EvictExpired(k)
    \/ \E k \in Keys : Admit(k)
    \/ \E k \in Keys : \E victim \in Keys : AdmitEvicting(k, victim)
    \/ \E k \in Keys : Reject(k)

SpecPreauth == InitPreauth /\ [][NextPreauth]_vars

(* =============================== claims ================================ *)

(* ---------------------- the singleton, under Spec ---------------------- *)

\* C1: once a Context has been published no later init replaces it: CTX
\* keeps the value of its first publication, with the fields of the first
\* configuration, and every get_instance returns that Context.
C1_FirstContextStays ==
    [][/\ CTX # Nil => CTX' = CTX
       /\ \A th \in Threads :
             ret'[th] # Nil => (CTX' # Nil /\ ret'[th] = CTX'.id)]_vars

\* a second init with another configuration has ended, the Context is still
\* the one of the first configuration, and a get_instance has returned it
C1_Witness ==
    \E th \in Threads : \E th2 \in Threads \ {th} :
        /\ op[th] = "init" /\ late[th] /\ pc[th] = "panicked"
        /\ CTX # Nil
        /\ CTX.id # CallId(th)
        /\ CTX.api_prefix # args[th].api_prefix
        /\ ret[th2] = CTX.id

\* a step of thread th's own call
StepOf(th) == pc'[th] # pc[th] \/ hars'[th] # hars[th]

\* C2: a second call to init, made after a first init has completed, returns
\* normally and leaves the published Context, the Evidence Store, the
\* registered watches and the evidence files exactly as they were.
C2_SecondInitNoOp ==
    [][\A th \in Threads :
          (op[th] = "init" /\ late[th] /\ StepOf(th)) =>
              /\ pc'[th] # "panicked"
              /\ CTX' = CTX /\ HAR' = HAR /\ watches' = watches /\ fs' = fs]_vars

\* C3: when threads make their first get_instance() calls concurrently and
\* init is never called, all of them obtain the same Context, and each type's
\* default file creation, watch start and the publication of the Evidence
\* Store happen exactly once.
C3_GetInstanceOnce ==
    initCalls = 0 =>
        /\ \A th \in Threads : pc[th] # "panicked"
        /\ \A th \in Threads : ret[th] # Nil => (CTX # Nil /\ ret[th] = CTX.id)
        /\ harSets <= 1
        /\ \A t \in Types : watchStarts[t] <= 1 /\ created[t] <= 1
        /\ CTX # Nil =>
              /\ harSets = 1
              /\ \A t \in Types :
                    /\ watchStarts[t] = 1
                    /\ Cardinality({w \in watches : w.type = t}) = 1
                    /\ created[t] = 1 => ~HAR[t].state

\* every thread has called get_instance, init was never called, and the
\* default files were created by the one construction
C3_Witness ==
    /\ initCalls = 0
    /\ CTX # Nil
    /\ \A th \in Threads : ret[th] = CTX.id
    /\ \A t \in Types : created[t] = 1 /\ watchStarts[t] = 1

\* C4: for any threads making concurrent first accesses through init and/or
\* get_instance, file bootstrap and watch registration run once, and the
\* callers that do not publish observe the published Context.
C4_ConstructsOnce ==
    /\ \A t \in Types : watchStarts[t] <= 1
    /\ \A th \in Threads : pc[th] # "panicked"

(* --------------------- the bootstrap, under SpecBoot ------------------- *)

\* thread th's init_har call for type t has just returned its record
Built(th, t) == t \notin DOMAIN hars[th] /\ t \in DOMAIN hars'[th]

\* C5: for a type with no configured path, bootstrap creates an absent
\* default file empty and reports it not fresh, reports a non-empty file
\* fresh and an empty one not fresh, and leaves an existing file's content
\* (and every other file) unchanged.
C5_DefaultBootstrap ==
    [][\A th \in Threads : \A t \in Types :
          (Built(th, t) /\ args[th].har[t] = None) =>
              LET p == DefaultFilename[t]
                  har == hars'[th][t]
              IN  /\ har.path = p
                  /\ fs[p] = "absent" => (fs'[p] = "empty" /\ ~har.state)
                  /\ fs[p] = "nonempty" => (fs'[p] = "nonempty" /\ har.state)
                  /\ fs[p] = "empty" => (fs'[p] = "empty" /\ ~har.state)
                  /\ \A q \in AllPaths \ {p} : fs'[q] = fs[q]]_vars

\* the records of three default paths: a file that was created, a file
\* found with content, a file found empty
C5_Witness ==
    \E th \in Threads :
        /\ {"Chat3", "Chat4", "Auth0"} \subseteq DOMAIN hars[th]
        /\ \A t \in {"Chat3", "Chat4", "Auth0"} : args[th].har[t] = None
        /\ created["Chat3"] = 1 /\ ~hars[th]["Chat3"].state
        /\ fs[DefaultFilename["Chat3"]] = "empty"
        /\ created["Chat4"] = 0 /\ hars[th]["Chat4"].state
        /\ fs[DefaultFilename["Chat4"]] = "nonempty"
        /\ created["Auth0"] = 0 /\ ~hars[th]["Auth0"].state
        /\ fs[DefaultFilename["Auth0"]] = "empty"

\* C6: for a type whose path is configured, the record has that exact path
\* and freshness true whatever the file holds, and the init_har call leaves
\* every file as it was, also when it fails.
C6_ExplicitBootstrap ==
    [][\A th \in Threads :
          /\ \A t \in Types :
                (Built(th, t) /\ args[th].har[t] # None) =>
                    /\ hars'[th][t].path = args[th].har[t]
                    /\ hars'[th][t].state = TRUE
          /\ (pc[th] = "har" /\ StepOf(th) /\ args[th].har[NextType(th)] # None)
                => fs' = fs]_vars

\* the record of a configured path whose file is empty, reported fresh
C6_Witness ==
    \E th \in Threads :
        /\ "Chat3" \in DOMAIN hars[th]
        /\ args[th].har["Chat3"] = Utf8Path
        /\ fs[Utf8Path] = "empty"
        /\ hars[th]["Chat3"].path = Utf8Path
        /\ hars[th]["Chat3"].state

\* C7: for all four types, whenever bootstrap has completed,
\* arkose_har_path(type) returns a path that exists on the file system,
\* for default and for configured paths.
C7_PathsExist ==
    HAR # Nil => \A t \in Types : fs[arkose_har_path(t)[2]] # "absent"

(* ------------------ the watch dispatcher, under SpecWatchFair ---------- *)

\* a modify event for a watch of type t waits at its dispatcher
ModifyQueued(t) ==
    \E w \in DOMAIN evq : \E i \in DOMAIN evq[w] :
        w.type = t /\ evq[w][i].kind = "Modify"

\* an event waits or a callback runs
Busy == evq # <<>> \/ cb # <<>>

C8_Calls ==
    /\ \A p \in AllPaths :
          IF to_str(p) # None THEN clearCalls[p] + PendingOcc(p) = sent[p]
          ELSE clearCalls[p] = 0
    /\ warned + PendingOcc(RawPath) = sent[RawPath]

C9_PushIdempotent ==
    [][(lastOp'.op = "push" /\ lastOp'.key \in LiveKeys(cacheMap)) =>
          cacheMap' = cacheMap /\ admitted' = admitted]_vars

\* a second push of a live key with another value: the first value stays
C9_Witness ==
    /\ lastOp.op = "push"
    /\ lastOp.key \in LiveKeys(cacheMap)
    /\ cacheMap[lastOp.key].value # lastOp.value
    /\ cacheMap[lastOp.key].at < now

\* C10: pop returns None when the cache is not enabled or holds no live
\* entry, otherwise the value of an entry live at the call; it removes
\* nothing.
C10_PopLiveNoRemove ==
    [][lastOp'.op = "pop" =>
          /\ cacheMap' = cacheMap /\ admitted' = admitted
          /\ IF ~CTX.preauth_cache \/ LiveKeys(cacheMap) = {}
             THEN lastOp'.ret = None
             ELSE \E k \in LiveKeys(cacheMap) : lastOp'.ret = cacheMap[k].value]_vars

\* a pop returned the value of the live entry while an expired entry with
\* another value was still stored
C10_Witness ==
    /\ lastOp.op = "pop"
    /\ lastOp.ret # None
    /\ \E k \in DOMAIN cacheMap :
          Expired(cacheMap, k) /\ cacheMap[k].value # lastOp.ret
    /\ \E k \in LiveKeys(cacheMap) : cacheMap[k].value = lastOp.ret

\* C11, as claimed: enable_preauth returns true exactly when the cache is
\* enabled and holds a live entry; in particular right after a push into an
\* enabled cache, and never on account of an entry older than the TTL.
C11_HasAnyIffLive ==
    [][lastOp'.op = "has_any" =>
          lastOp'.ret = (CTX.preauth_cache /\ LiveKeys(cacheMap) # {})]_vars

\* C12: the cache exists exactly when pbind was configured, and that never
\* changes; on a Context without it no push stores anything, every pop
\* returns None and every enable_preauth returns false.
C12_CacheIffConfigured ==
    [][/\ CTX' = CTX
       /\ CTX.preauth_cache = (args[1].pbind # None)
       /\ ~CTX.preauth_cache =>
             /\ cacheMap = <<>> /\ cacheMap' = cacheMap
             /\ admitted = {} /\ admitted' = admitted
             /\ lastOp'.op = "pop" => lastOp'.ret = None
             /\ lastOp'.op = "has_any" => lastOp'.ret = FALSE]_vars

\* a push was made on a Context built without pbind, and nothing is stored
C12_Witness ==
    /\ args[1].pbind = None
    /\ ~CTX.preauth_cache
    /\ lastOp.op = "push"
    /\ cacheMap = <<>>

(* ------------------ the Turnstile keys, under SpecTurnstile ------------ *)

\* C13: for every combination of the two keys, cf_turnstile() is present
\* exactly when both were supplied and then carries those two values;
\* with a key missing it is absent, never half filled.
C13_TurnstileBothOrNone ==
    CTX # Nil =>
        LET a == args[1]
            cf == cf_turnstile(CTX)
        IN  /\ (cf # Nil) <=> (a.cf_site_key # None /\ a.cf_secret_key # None)
            /\ cf # Nil =>
                  /\ DOMAIN cf = {"site_key", "secret_key"}
                  /\ cf.site_key = a.cf_site_key /\ cf.site_key # None
                  /\ cf.secret_key = a.cf_secret_key /\ cf.secret_key # None

\* a Context built with the site key alone: no Turnstile configuration
C13_Witness ==
    /\ CTX # Nil
    /\ args[1].cf_site_key # None
    /\ args[1].cf_secret_key = None
    /\ cf_turnstile(CTX) = Nil

(* ------------------- the Evidence Store lock, under SpecLock ----------- *)

\* the callback of watch w is inside its critical section
InSection(w) == w \in DOMAIN cb /\ cb[w].phase \in {"flip", "clear"}

\* C14: readers may share the lock, but while a callback holds it as writer
\* no reader holds it; the writer's section covers the flip and the
\* invalidation call, so a reader never holds the lock, and never copies a
\* record, between a flip and its invalidation call.
C14_ReadWriteExclusion ==
    /\ harLock.writer # Nil => harLock.readers = {}
    /\ \A w \in WatchIds : InSection(w) <=> harLock.writer = w
    /\ harLock.readers # {} => \A w \in DOMAIN cb : cb[w].phase = "lock"

\* both readers hold the lock together while a callback waits for it
C14_Witness ==
    /\ harLock.readers = Threads
    /\ \E w \in DOMAIN cb : cb[w].phase = "lock"

\* a callback waits for the write lock
CbWaiting(w) == w \in DOMAIN cb /\ cb[w].phase = "lock"

\* a reader waits for the read lock
ReadWaiting(th) == rd[th] # None /\ th \notin harLock.readers

C15_NoDeadlock ==
    /\ \A w \in LockWatches :
          CbWaiting(w) =>
              \/ ENABLED CbLock(w)
              \/ \E w2 \in LockWatches : ENABLED CbFlip(w2) \/ ENABLED CbClear(w2)
              \/ \E th \in Threads : ENABLED ReadCopy(th)
    /\ \A th \in Threads :
          ReadWaiting(th) =>
              \/ ENABLED ReadLock(th)
              \/ \E w2 \in LockWatches : ENABLED CbFlip(w2) \/ ENABLED CbClear(w2)

Returns(th) == th \in harLock.readers /\ rd'[th] = None

\* C19: no step takes a record's freshness from true to false or changes its
\* path; a read returns the record as it is, so once arkose_har_path(type)
\* has reported true, every later one reports true, with the same path.
C19_FreshnessMonotone ==
    [][/\ \A t \in Types :
             /\ HAR'[t].path = HAR[t].path
             /\ HAR[t].state => HAR'[t].state
       /\ \A th \in Threads :
             Returns(th) =>
                 /\ seen'[th].type = rd[th]
                 /\ seen'[th].state = HAR[rd[th]].state
                 /\ seen'[th].path = HAR[rd[th]].path
                 /\ \A th2 \in Threads :
                       (seen[th2] # Nil /\ seen[th2].type = rd[th]) =>
                           /\ seen[th2].state => seen'[th].state
                           /\ seen'[th].path = seen[th2].path]_vars

\* thread 1 read the type before a modify event and was told false, thread 2
\* read it after the event and was told true, then a second event was handled
C19_Witness ==
    /\ seen[1] # Nil /\ seen[2] # Nil
    /\ seen[1].type = seen[2].type
    /\ ~seen[1].state
    /\ seen[2].state
    /\ nEvents = 2
    /\ ~Busy
    /\ \E p \in AllPaths : clearCalls[p] = 2

(* --------------- failures and frame, under SpecWatch(Fair) ------------ *)

\* the callback of watch w ends the handling of a path in this step
PathDone(w) ==
    /\ w \in DOMAIN cb /\ cb[w].phase = "clear"
    /\ w \notin DOMAIN cb' \/ cb'[w].phase = "lock"

\* C16: a path that does not convert to a string is logged and swallowed:
\* the type's flag has been set to true, no invalidation call is made for
\* the path, the lock is released, the callback goes on with what is left
\* of the event, and the events still waiting are handled in the end.
C16_BadPathSwallowed ==
    /\ [][\A w \in WatchIds :
             (PathDone(w) /\ to_str(Head(cb[w].paths)) = None) =>
                 /\ warned' = warned + 1
                 /\ clearCalls' = clearCalls
                 /\ HAR[w.type].state /\ HAR' = HAR
                 /\ harLock.writer = w /\ harLock'.writer = Nil
                 /\ IF Len(cb[w].paths) > 1
                    THEN cb'[w] = [paths |-> Tail(cb[w].paths), phase |-> "lock"]
                    ELSE w \notin DOMAIN cb'
                 /\ evq' = evq]_vars
    /\ (warned > 0 /\ Busy) ~> ~Busy
    /\ [](warned > 0 => C8_Calls)

\* after a warning a callback handles a path that converts, its type fresh
C16_Witness ==
    /\ warned = 1
    /\ \E w \in DOMAIN cb :
          /\ cb[w].phase = "clear"
          /\ to_str(Head(cb[w].paths)) # None
          /\ created[w.type] = 1
          /\ HAR[w.type].state

\* the dispatcher of watch w takes an event from its queue in this step
Taken(w) ==
    /\ w \in DOMAIN evq
    /\ w \notin DOMAIN evq' \/ Len(evq'[w]) < Len(evq[w])

\* C20: a watch event for type T changes T's freshness flag and nothing
\* else of the program's state: the other records, every path, the preauth
\* cache and the Context stay as they are; an event that is no modification
\* changes nothing and leads to no invalidation call.
C20_EventFrame ==
    [][/\ CTX' = CTX /\ cacheMap' = cacheMap /\ admitted' = admitted
       /\ watches' = watches
       /\ \A t \in Types :
             /\ HAR'[t].path = HAR[t].path
             /\ HAR'[t].hotwatch = HAR[t].hotwatch
       /\ HAR' # HAR =>
             \E w \in DOMAIN cb :
                 /\ cb[w].phase = "flip"
                 /\ \A t \in Types \ {w.type} : HAR'[t] = HAR[t]
       /\ \A w \in WatchIds :
             (Taken(w) /\ Head(evq[w]).kind # "Modify") =>
                 /\ cb' = cb /\ HAR' = HAR /\ harLock' = harLock /\ fs' = fs
                 /\ clearCalls' = clearCalls /\ warned' = warned
       /\ \A p \in AllPaths : clearCalls'[p] > clearCalls[p] => sent[p] > 0]_vars

\* a modify event for one created file and an event that is no modification
\* were handled: that type alone has turned fresh, with one invalidation call
C20_Witness ==
    /\ nEvents = 2 /\ ~Busy
    /\ \E t \in Types :
          /\ created[t] = 1 /\ HAR[t].state
          /\ sent[DefaultFilename[t]] = 1 /\ clearCalls[DefaultFilename[t]] = 1
          /\ \A p \in AllPaths \ {DefaultFilename[t]} :
                sent[p] = 0 /\ clearCalls[p] = 0
          /\ \E t2 \in Types \ {t} : created[t2] = 1
          /\ \A t2 \in Types \ {t} : created[t2] = 1 => ~HAR[t2].state

(* --------------- events during construction, under SpecRace ----------- *)

\* C17, as claimed: no callback ever finds the Evidence Store unpublished,
\* whenever after the start of its watch the event is delivered.
C17_NeverUnpublished ==
    \A w \in DOMAIN cb : cb[w].phase # "dead"

(* ------------------ the published store, under Spec ------------------- *)

\* C18: whenever a Context is published, or a get_instance has returned,
\* the Evidence Store is published and holds one record for each of the
\* four types, so arkose_har_path finds the record of every type.
C18_StoreComplete ==
    (CTX # Nil \/ \E th \in Threads : ret[th] # Nil) =>
        /\ HAR # Nil
        /\ DOMAIN HAR = Types
        /\ Cardinality(DOMAIN HAR) = 4
        /\ \A t \in Types :
              /\ arkose_har_path(t)[1] \in BOOLEAN
              /\ arkose_har_path(t)[2] \in AllPaths

\* a get_instance has returned the published Context, and a later
\* construction by the other thread has panicked: the store is still whole
C18_Witness ==
    /\ CTX # Nil
    /\ \E th \in Threads :
          /\ ret[th] = CTX.id
          /\ \E th2 \in Threads \ {th} : pc[th2] = "panicked" /\ late[th2]
    /\ HAR # Nil

====
